---- MODULE Spec2Model ----
(***************************************************************************)
(* Model of hcid/dbus-common.c: the name-listener registry of hcid.        *)
(*                                                                         *)
(* name_listener_add / name_listener_remove keep, per watched bus name, a  *)
(* list of (func, user_data) callbacks and one NameOwnerChanged match rule *)
(* on the bus; name_exit_filter is the connection filter that runs the     *)
(* callbacks of a name when the name loses its owner.                      *)
(*                                                                         *)
(* A C string is a sequence of one-character strings; a const char * is the *)
(* identity of a string, whose text NameText gives.  A pointer to a list   *)
(* node is the node's position in its list (0 is NULL).                    *)
(***************************************************************************)
EXTENDS Integers, Sequences, FiniteSets, TLC

VARIABLES
    name_listener_initialized,  \* static int name_listener_initialized
    name_listeners,             \* static struct slist *name_listeners
    filters,                    \* connection: number of attached name_exit_filter
    matches,                    \* bus: installed match rules, rule text -> count
    dispatch,                   \* the name_exit_filter invocation in progress
    last                        \* the last completed call and what it did

vars == <<name_listener_initialized, name_listeners, filters, matches,
          dispatch, last>>

----------------------------------------------------------------------------
(* Bounds of the model *)

\* most callbacks the model lets the registry hold, over all names
MaxCallbacks == 2

\* most match rules the model lets the bus hold, over all names
MaxMatches == 2

\* most calls of the registry the model lets the callbacks of one
\* name_exit_filter invocation make
MaxReentries == 1

----------------------------------------------------------------------------
(* Strings *)

\* char match_string[128]
MatchBufSize == 128

\* DBUS_INTERFACE_DBUS
DBUS_INTERFACE_DBUS ==
    <<"o", "r", "g", ".", "f", "r", "e", "e", "d", "e", "s", "k", "t", "o", "p", ".", "D", "B", "u", "s">>

\* the format "interface=%s,member=NameOwnerChanged,arg0=%s" up to the name
MatchFormat(interface) ==
    <<"i", "n", "t", "e", "r", "f", "a", "c", "e", "=">>
    \o interface \o
    <<",", "m", "e", "m", "b", "e", "r", "=", "N", "a", "m", "e", "O", "w", "n", "e", "r", "C", "h", "a", "n", "g", "e", "d", ",", "a", "r", "g", "0", "=">>

Min(a, b) == IF a < b THEN a ELSE b

\* snprintf(buf, size, ...): at most size - 1 characters are stored
snprintf(size, text) == SubSeq(text, 1, Min(Len(text), size - 1))

\* the names the callers watch: "a" is a unique connection name, "l" a
\* well-known name long enough that its rule does not fit match_string
Names == {"a", "l"}

\* two names of 68 characters that differ in the last one only: snprintf
\* leaves the same text in match_string for both
LongNames == {"l", "m"}

\* every name a call is made with
AllNames == Names \cup LongNames

\* the text of each name
NameText ==
    [n \in AllNames |->
        IF n = "a" THEN <<":", "1", ".", "5">>
        ELSE IF n = "m"
        THEN <<"o", "r", "g", ".">>
             \o [i \in 1 .. (MatchBufSize
                               - Len(MatchFormat(DBUS_INTERFACE_DBUS)) - 5)
                     |-> "x"]
             \o <<"y">>
        ELSE <<"o", "r", "g", ".">>
             \o [i \in 1 .. (MatchBufSize
                               - Len(MatchFormat(DBUS_INTERFACE_DBUS)) - 4)
                     |-> "x"]]

\* strcmp(a, b) == 0
strcmp_equal(a, b) == NameText[a] = NameText[b]

\* the text snprintf leaves in match_string for a name
match_string(name) ==
    snprintf(MatchBufSize, MatchFormat(DBUS_INTERFACE_DBUS) \o NameText[name])

\* the match rules the calls can build, each known by the first name that
\* builds its text
RuleId ==
    [n \in AllNames |->
        CHOOSE k \in Names : match_string(k) = match_string(n)]

\* the (func, user_data) pairs the callers register: callbacks (name_cb_t)
\* "f" and "g", opaque pointers "u" and "v"
Callers == {<<"f", "u">>, <<"f", "v">>, <<"g", "u">>}

----------------------------------------------------------------------------
(* list.h: singly linked lists *)

\* slist_append: a new node holding data, linked after the last node
slist_append(list, data) == Append(list, data)

\* slist_remove: unlink and free the node holding data (the node at p)
slist_remove(list, p) ==
    IF p = 0 \/ p > Len(list) THEN list
    ELSE [i \in 1 .. (Len(list) - 1) |-> IF i < p THEN list[i] ELSE list[i + 1]]

----------------------------------------------------------------------------
(* The registry *)

\* struct name_callback
name_callback(func, user_data) == [func |-> func, user_data |-> user_data]

\* struct name_data
name_data(name, callbacks) == [name |-> name, callbacks |-> callbacks]

\* a faulty variant of name_data_find: only the head of the list is compared
name_data_find_head_only(listeners, name) ==
    IF listeners # <<>> /\ strcmp_equal(name, listeners[1].name) THEN 1 ELSE 0

\* the first node of listeners whose data has this name, NULL (0) if none
name_data_find(listeners, name) ==
    LET hits == {i \in 1 .. Len(listeners) :
                    strcmp_equal(name, listeners[i].name)}
    IN  IF hits = {} THEN 0 ELSE CHOOSE i \in hits : \A j \in hits : i <= j

\* a faulty variant of name_callback_find: user_data is not compared
name_callback_find_func_only(callbacks, func, user_data) ==
    LET hits == {i \in 1 .. Len(callbacks) : callbacks[i].func = func}
    IN  IF hits = {} THEN 0 ELSE CHOOSE i \in hits : \A j \in hits : i <= j

\* the first node of callbacks whose data has this func and user_data, or NULL
name_callback_find(callbacks, func, user_data) ==
    LET hits == {i \in 1 .. Len(callbacks) :
                    /\ callbacks[i].func = func
                    /\ callbacks[i].user_data = user_data}
    IN  IF hits = {} THEN 0 ELSE CHOOSE i \in hits : \A j \in hits : i <= j

\* what can fail during one call: nothing, dbus_connection_add_filter, the
\* malloc of the callback, the malloc of the name_data, the strdup of its
\* name, or the call on the bus.  A fault the call never reaches is no fault.
Faults == {"none", "filter", "cb", "data", "name", "bus"}

\* a faulty variant of name_data_add: first is 1 also when the name has its entry
name_data_add_always_first(listeners, name, func, user_data, fault) ==
    LET cb == name_callback(func, user_data)
        d == name_data_find(listeners, name)
    IN  IF fault = "cb" THEN [listeners |-> listeners, first |-> 0]
        ELSE IF d = 0
        THEN IF fault \in {"data", "name"}
             THEN [listeners |-> listeners, first |-> 0]
             ELSE [listeners |->
                       slist_append(listeners,
                                    name_data(name, slist_append(<<>>, cb))),
                   first |-> 1]
        ELSE [listeners |->
                  [listeners EXCEPT ![d].callbacks = slist_append(@, cb)],
              first |-> 1]

\* name_data_add: the new listeners and the value returned (first)
name_data_add(listeners, name, func, user_data, fault) ==
    LET cb == name_callback(func, user_data)
        d == name_data_find(listeners, name)
    IN  IF fault = "cb" THEN [listeners |-> listeners, first |-> 0]
        ELSE IF d = 0
        THEN IF fault \in {"data", "name"}
             THEN [listeners |-> listeners, first |-> 0]
             ELSE [listeners |->
                       slist_append(listeners,
                                    name_data(name, slist_append(<<>>, cb))),
                   first |-> 1]
        ELSE [listeners |->
                  [listeners EXCEPT ![d].callbacks = slist_append(@, cb)],
              first |-> 0]

\* a faulty variant of name_data_remove: the emptied name_data stays in the list
name_data_remove_keeps_entry(listeners, name, func, user_data) ==
    LET d == name_data_find(listeners, name)
    IN  IF d = 0 THEN listeners
        ELSE LET c == name_callback_find(listeners[d].callbacks, func, user_data)
             IN  IF c = 0 THEN listeners
                 ELSE [listeners EXCEPT ![d].callbacks = slist_remove(@, c)]

\* name_data_remove: the new listeners
name_data_remove(listeners, name, func, user_data) ==
    LET d == name_data_find(listeners, name)
    IN  IF d = 0 THEN listeners
        ELSE LET c == name_callback_find(listeners[d].callbacks, func, user_data)
             IN  IF c = 0 THEN listeners
                 ELSE LET callbacks == slist_remove(listeners[d].callbacks, c)
                      IN  IF callbacks = <<>>
                          THEN slist_remove(listeners, d)
                          ELSE [listeners EXCEPT ![d].callbacks = callbacks]

----------------------------------------------------------------------------
(* The bus connection, as dbus-common.c uses it *)

\* one call made on the connection, with what the bus answered
BusCall(call, rule, ok) == [call |-> call, rule |-> rule, ok |-> ok]

\* dbus_connection_add_filter: one more filter on the connection
dbus_connection_add_filter(n) == n + 1

\* dbus_bus_add_match: one more rule on the bus unless the bus answers an error
dbus_bus_add_match(m, rule, ok) ==
    IF ok THEN [matches |-> [m EXCEPT ![rule] = @ + 1], err |-> FALSE]
    ELSE [matches |-> m, err |-> TRUE]

\* dbus_bus_remove_match: one rule less; an error when the bus holds no such
\* rule, or answers an error for another reason
dbus_bus_remove_match(m, rule, ok) ==
    IF ok /\ m[rule] > 0
    THEN [matches |-> [m EXCEPT ![rule] = @ - 1], err |-> FALSE]
    ELSE [matches |-> m, err |-> TRUE]

\* the globals of dbus-common.c and the connection they are used with
State(initialized, listeners, nfilters, m) ==
    [initialized |-> initialized, listeners |-> listeners,
     filters |-> nfilters, matches |-> m]

\* what a call returns: the state it leaves, its value, its calls on the bus
Result(st, ret, bus) == [st |-> st, ret |-> ret, bus |-> bus]

\* a faulty variant of name_listener_add: name_listener_initialized is not
\* looked at, the filter is attached by every call
name_listener_add_attach_always(st, name, func, user_data, fault) ==
    IF fault = "filter"
    THEN Result(st, -1, <<BusCall("add_filter", "", FALSE)>>)
    ELSE
    LET nfilters == dbus_connection_add_filter(st.filters)
        log == <<BusCall("add_filter", "", TRUE)>>
        added == name_data_add(st.listeners, name, func, user_data, fault)
    IN  IF added.first = 0
        THEN Result(State(1, added.listeners, nfilters, st.matches), 0, log)
        ELSE
        LET rule == RuleId[name]
            reply == dbus_bus_add_match(st.matches, rule, fault # "bus")
        IN  IF reply.err
            THEN Result(State(1,
                              name_data_remove(added.listeners, name, func,
                                               user_data),
                              nfilters, reply.matches),
                        -1, Append(log, BusCall("add_match", rule, FALSE)))
            ELSE Result(State(1, added.listeners, nfilters, reply.matches),
                        0, Append(log, BusCall("add_match", rule, TRUE)))

\* name_listener_add
name_listener_add(st, name, func, user_data, fault) ==
    IF st.initialized = 0 /\ fault = "filter"
    THEN Result(st, -1, <<BusCall("add_filter", "", FALSE)>>)
    ELSE
    LET attach == st.initialized = 0
        nfilters == IF attach THEN dbus_connection_add_filter(st.filters)
                    ELSE st.filters
        log == IF attach THEN <<BusCall("add_filter", "", TRUE)>> ELSE <<>>
        added == name_data_add(st.listeners, name, func, user_data, fault)
    IN  IF added.first = 0
        THEN Result(State(1, added.listeners, nfilters, st.matches), 0, log)
        ELSE
        LET rule == RuleId[name]
            reply == dbus_bus_add_match(st.matches, rule, fault # "bus")
        IN  IF reply.err
            THEN Result(State(1,
                              name_data_remove(added.listeners, name, func,
                                               user_data),
                              nfilters, reply.matches),
                        -1, Append(log, BusCall("add_match", rule, FALSE)))
            ELSE Result(State(1, added.listeners, nfilters, reply.matches),
                        0, Append(log, BusCall("add_match", rule, TRUE)))

\* a faulty variant of name_listener_remove: the match rule is removed although other
\* callbacks exist
name_listener_remove_no_check(st, name, func, user_data, fault) ==
    LET d == name_data_find(st.listeners, name)
    IN  IF d = 0 THEN Result(st, -1, <<>>)
        ELSE
        LET c == name_callback_find(st.listeners[d].callbacks, func, user_data)
        IN  IF c = 0 THEN Result(st, -1, <<>>)
            ELSE
            LET removed == [st.listeners EXCEPT
                                ![d].callbacks = slist_remove(@, c)]
                rule == RuleId[name]
                reply == dbus_bus_remove_match(st.matches, rule, fault # "bus")
            IN  IF reply.err
                THEN Result([st EXCEPT !.listeners = removed], -1,
                            <<BusCall("remove_match", rule, FALSE)>>)
                ELSE Result([st EXCEPT
                                !.listeners = name_data_remove(removed, name,
                                                               func, user_data),
                                !.matches = reply.matches],
                            0, <<BusCall("remove_match", rule, TRUE)>>)

\* name_listener_remove
name_listener_remove(st, name, func, user_data, fault) ==
    LET d == name_data_find(st.listeners, name)
    IN  IF d = 0 THEN Result(st, -1, <<>>)
        ELSE
        LET c == name_callback_find(st.listeners[d].callbacks, func, user_data)
        IN  IF c = 0 THEN Result(st, -1, <<>>)
            ELSE
            LET removed == [st.listeners EXCEPT
                                ![d].callbacks = slist_remove(@, c)]
            IN  IF removed[d].callbacks # <<>>
                THEN Result([st EXCEPT !.listeners = removed], 0, <<>>)
                ELSE
                LET rule == RuleId[name]
                    reply == dbus_bus_remove_match(st.matches, rule,
                                                   fault # "bus")
                IN  IF reply.err
                    THEN Result([st EXCEPT !.listeners = removed], -1,
                                <<BusCall("remove_match", rule, FALSE)>>)
                    ELSE Result([st EXCEPT
                                    !.listeners =
                                        name_data_remove(removed, name, func,
                                                         user_data),
                                    !.matches = reply.matches],
                                0, <<BusCall("remove_match", rule, TRUE)>>)

----------------------------------------------------------------------------
(* Messages and the filter *)

\* the kinds of message the connection hands to its filters: a message that
\* is not the NameOwnerChanged signal, a NameOwnerChanged signal whose
\* arguments are not three strings, and NameOwnerChanged(name, old, new) with
\* an empty new owner (the name lost its owner) or a new owner
MessagesAbout(names) ==
    {[kind |-> "other", name |-> "", new |-> <<>>],
     [kind |-> "malformed", name |-> "", new |-> <<>>]}
    \cup [kind : {"NameOwnerChanged"}, name : names,
          new : {<<>>, <<":", "1", ".", "9">>}]

\* the messages about the names of Names
Messages == MessagesAbout(Names)

\* a faulty variant of name_exit_filter_data: the new owner is not looked at
name_exit_filter_data_any_owner(listeners, message) ==
    IF message.kind = "other" THEN 0
    ELSE IF message.kind = "malformed" THEN 0
    ELSE name_data_find(listeners, message.name)

\* name_exit_filter up to its loop: the name_data whose callbacks are to run,
\* NULL (0) when the filter goes straight to out
name_exit_filter_data(listeners, message) ==
    IF message.kind = "other" THEN 0
    ELSE IF message.kind = "malformed" THEN 0
    ELSE IF message.new # <<>> THEN 0
    ELSE name_data_find(listeners, message.name)

\* DBUS_HANDLER_RESULT_NOT_YET_HANDLED
NOT_YET_HANDLED == "DBUS_HANDLER_RESULT_NOT_YET_HANDLED"

\* a faulty variant of name_exit_filter_return: a signal whose callbacks were
\* run is reported as handled, so the connection hands it to no other filter
name_exit_filter_return_handled(watched) ==
    IF watched THEN "DBUS_HANDLER_RESULT_HANDLED" ELSE NOT_YET_HANDLED

\* the value of name_exit_filter, on the paths that go straight to out
\* (watched is FALSE) and on the path through the loop
name_exit_filter_return(watched) == NOT_YET_HANDLED

\* cb->func(name, cb->user_data): the call as the callback sees it
Invocation(cb, name) ==
    [func |-> cb.func, name |-> name, user_data |-> cb.user_data]

\* a faulty variant of NextNode: the loop ends after the first callback
NextNode_stops(callbacks, l) == 0

\* l->next of the node at l
NextNode(callbacks, l) == IF l < Len(callbacks) THEN l + 1 ELSE 0

\* no filter invocation is in progress. Of an invocation in progress: the
\* message, the name_data found (data), the loop's position (l), the
\* callbacks of the name when the filter was entered (snap), the invocations
\* made (invoked), the number of registry calls made by callbacks
\* (reentered), and the callers whose name_listener_add from a callback
\* returned 0 and appended the callback, and that have not been removed
\* since (readded)
Idle ==
    [pc |-> "idle", message |-> [kind |-> "other", name |-> "", new |-> <<>>],
     data |-> 0, l |-> 0, snap |-> <<>>, invoked |-> <<>>,
     reentered |-> 0, readded |-> {}]

\* name_exit_filter followed a pointer that cannot be followed: the process
\* is gone
Crashed == [Idle EXCEPT !.pc = "crashed"]

----------------------------------------------------------------------------
(* What is remembered of the last step *)

\* the callbacks registered for a name, in registration order
Registered(listeners, name) ==
    LET d == name_data_find(listeners, name)
    IN  IF d = 0 THEN <<>> ELSE listeners[d].callbacks

\* whether a call made this call on the bus
Called(bus, call) == \E i \in 1 .. Len(bus) : bus[i].call = call

\* whether a call made this call on the bus and got this answer
Answered(bus, call, ok) ==
    \E i \in 1 .. Len(bus) : bus[i].call = call /\ bus[i].ok = ok

\* nothing has been called yet
NoCall ==
    [op |-> "none", name |-> "", func |-> "", user_data |-> "",
     ret |-> 0, handled |-> "", bus |-> <<>>,
     recorded |-> FALSE, only_adds |-> TRUE, adds |-> <<>>,
     after_add |-> FALSE, add_entry |-> FALSE, add_regs |-> 0,
     add_rules |-> 0,
     message |-> [kind |-> "other", name |-> "", new |-> <<>>],
     watched |-> FALSE, registered |-> 0]

\* a step of name_exit_filter that is not its return
FilterStep(op) == [NoCall EXCEPT !.op = op, !.only_adds = FALSE]

\* a completed name_listener_add or name_listener_remove: its arguments, its
\* value and bus calls; for an add, whether it recorded the callback and what
\* the name had before it; for a remove, whether it follows an add of the
\* same arguments that succeeded, and then what the name had before that add;
\* whether all calls so far were adds of one name that succeeded, and then
\* which of them called dbus_bus_add_match
CompletedCall(op, name, func, user_data, st0, r) ==
    LET recorded ==
            /\ op = "add"
            /\ Len(Registered(r.st.listeners, name))
                   = Len(Registered(st0.listeners, name)) + 1
        only_adds ==
            /\ last.only_adds
            /\ op = "add" /\ r.ret = 0 /\ recorded
            /\ last.op = "none" \/ last.name = name
        after_add ==
            /\ op = "remove"
            /\ last.op = "add" /\ last.ret = 0 /\ last.recorded
            /\ last.name = name /\ last.func = func
            /\ last.user_data = user_data
    IN  [NoCall EXCEPT
            !.op = op, !.name = name, !.func = func,
            !.user_data = user_data, !.ret = r.ret, !.bus = r.bus,
            !.recorded = recorded,
            !.only_adds = only_adds,
            !.adds = IF only_adds
                     THEN Append(last.adds, Called(r.bus, "add_match"))
                     ELSE <<>>,
            !.after_add = after_add,
            !.add_entry = IF op = "add"
                          THEN name_data_find(st0.listeners, name) # 0
                          ELSE after_add /\ last.add_entry,
            !.add_regs = IF op = "add"
                         THEN Len(Registered(st0.listeners, name))
                         ELSE IF after_add THEN last.add_regs ELSE 0,
            !.add_rules = IF op = "add" THEN st0.matches[RuleId[name]]
                          ELSE IF after_add THEN last.add_rules ELSE 0]

\* a completed name_exit_filter: the message, whether the name had its
\* name_data, how many callbacks were registered for it when the filter was
\* entered, the value returned
CompletedFilter(message, watched, registered) ==
    [NoCall EXCEPT
        !.op = "filter", !.name = message.name,
        !.handled = name_exit_filter_return(watched),
        !.only_adds = FALSE, !.message = message,
        !.watched = watched, !.registered = registered]

----------------------------------------------------------------------------
(* The state machine *)

\* the match rules name_listener_add and name_listener_remove can name
Rules == {RuleId[n] : n \in Names}

\* the globals and the connection, as the calls take them
Cur == State(name_listener_initialized, name_listeners, filters, matches)

\* the globals and the connection, as a call leaves them
Becomes(st) ==
    /\ name_listener_initialized' = st.initialized
    /\ name_listeners' = st.listeners
    /\ filters' = st.filters
    /\ matches' = st.matches

\* the sum of f[x] over the elements x of S
RECURSIVE Sum(_, _)
Sum(f, S) ==
    IF S = {} THEN 0
    ELSE LET x == CHOOSE y \in S : TRUE IN f[x] + Sum(f, S \ {x})

\* the model follows a call only while the callbacks the registry holds and
\* the rules the bus holds stay bounded
Bounded(st) ==
    /\ Sum([i \in 1 .. Len(st.listeners) |-> Len(st.listeners[i].callbacks)],
           1 .. Len(st.listeners)) <= MaxCallbacks
    /\ Sum(st.matches, Rules) <= MaxMatches

Init ==
    /\ name_listener_initialized = 0
    /\ name_listeners = <<>>
    /\ filters = 0
    /\ matches = [rule \in Rules |-> 0]
    /\ dispatch = Idle
    /\ last = NoCall

\* the application calls name_listener_add for one of these names
CallAddOf(names) ==
    /\ dispatch.pc = "idle"
    /\ \E name \in names, caller \in Callers, fault \in Faults :
           LET r == name_listener_add(Cur, name, caller[1], caller[2], fault)
           IN  /\ Bounded(r.st)
               /\ Becomes(r.st)
               /\ last' = CompletedCall("add", name, caller[1], caller[2],
                                        Cur, r)
    /\ UNCHANGED dispatch

\* the application calls name_listener_add
CallAdd == CallAddOf(Names)

\* the application calls name_listener_remove for one of these names
CallRemoveOf(names) ==
    /\ dispatch.pc = "idle"
    /\ \E name \in names, caller \in Callers, fault \in {"none", "bus"} :
           LET r == name_listener_remove(Cur, name, caller[1], caller[2],
                                         fault)
           IN  /\ Becomes(r.st)
               /\ last' = CompletedCall("remove", name, caller[1], caller[2],
                                        Cur, r)
    /\ UNCHANGED dispatch

\* the application calls name_listener_remove
CallRemove == CallRemoveOf(Names)

\* the connection hands one of these messages to name_exit_filter: the
\* filter returns at once (out), or finds the name's data and enters its loop
DeliverOf(messages) ==
    /\ dispatch.pc = "idle"
    /\ filters > 0
    /\ \E message \in messages :
           LET d == name_exit_filter_data(name_listeners, message)
           IN  IF d = 0
               THEN /\ last' = CompletedFilter(message, FALSE, 0)
                    /\ UNCHANGED dispatch
               ELSE /\ dispatch' =
                           [pc |-> "loop", message |-> message, data |-> d,
                            l |-> IF name_listeners[d].callbacks = <<>>
                                  THEN 0 ELSE 1,
                            snap |-> name_listeners[d].callbacks,
                            invoked |-> <<>>, reentered |-> 0,
                            readded |-> {}]
                    /\ last' = FilterStep("enter")
    /\ UNCHANGED <<name_listener_initialized, name_listeners, filters, matches>>

\* the connection hands a message to name_exit_filter
Deliver == DeliverOf(Messages)

\* what a callback invoked for a name does with the registry before it
\* returns: nothing, or one call of name_listener_add or name_listener_remove
\* for that name
Reentries(name) ==
    {[op |-> "none", name |-> name, caller |-> <<"", "">>, fault |-> "none"]}
    \cup [op : {"add"}, name : {name}, caller : Callers, fault : Faults]
    \cup [op : {"remove"}, name : {name}, caller : Callers,
          fault : {"none", "bus"}]

\* the values l = l->next can take after the callback of the node at l
\* returned: the next node, or, when the callback had the node at l unlinked
\* and freed, what a read of freed memory gives (the old pointer, NULL, or a
\* pointer that cannot be followed, -1)
LoopNext(after, l, removed) ==
    IF removed = l
    THEN {NextNode(after, l - 1), 0, -1}
    ELSE IF removed # 0 /\ removed < l
    THEN {NextNode(after, l - 1)}
    ELSE {NextNode(after, l)}

\* one round of the loop of name_exit_filter: cb->func(name, cb->user_data)
\* with all the callback does, then l = l->next
FilterCallback ==
    /\ dispatch.pc = "loop"
    /\ dispatch.l > 0
    /\ LET d == dispatch.data
           name == dispatch.message.name
           before == name_listeners[d].callbacks
           cb == before[dispatch.l]
           invoked == Append(dispatch.invoked, Invocation(cb, name))
       IN  \E re \in Reentries(name) :
               LET r == IF re.op = "add"
                        THEN name_listener_add(Cur, re.name, re.caller[1],
                                               re.caller[2], re.fault)
                        ELSE IF re.op = "remove"
                        THEN name_listener_remove(Cur, re.name, re.caller[1],
                                                  re.caller[2], re.fault)
                        ELSE Result(Cur, 0, <<>>)
                   after == r.st.listeners[d].callbacks
                   removed == IF re.op = "remove"
                                 /\ strcmp_equal(re.name, name)
                              THEN name_callback_find(before, re.caller[1],
                                                      re.caller[2])
                              ELSE 0
               IN  /\ re.op # "none" => dispatch.reentered < MaxReentries
                   /\ Bounded(r.st)
                   /\ Becomes(r.st)
                   /\ last' = FilterStep("callback")
                   /\ \E next \in LoopNext(after, dispatch.l, removed) :
                          dispatch' =
                              IF next = -1 THEN Crashed
                              ELSE [dispatch EXCEPT
                                       !.l = next,
                                       !.invoked = invoked,
                                       !.reentered =
                                           IF re.op = "none" THEN @ ELSE @ + 1,
                                       !.readded =
                                           IF re.op = "add" /\ r.ret = 0
                                              /\ Len(after) > Len(before)
                                           THEN @ \cup {re.caller}
                                           ELSE IF removed # 0
                                           THEN @ \ {re.caller}
                                           ELSE @]

\* the end of name_exit_filter: the name_data is unlinked and freed
FilterReturn ==
    /\ dispatch.pc = "loop"
    /\ dispatch.l = 0
    /\ name_listeners' = slist_remove(name_listeners, dispatch.data)
    /\ last' = CompletedFilter(dispatch.message, TRUE, Len(dispatch.snap))
    /\ dispatch' = Idle
    /\ UNCHANGED <<name_listener_initialized, filters, matches>>

Next ==
    \/ CallAdd
    \/ CallRemove
    \/ Deliver
    \/ FilterCallback
    \/ FilterReturn

Spec == Init /\ [][Next]_vars

\* the same calls made with the two long names
CallAddLong == CallAddOf(LongNames)

CallRemoveLong == CallRemoveOf(LongNames)

DeliverLong == DeliverOf(MessagesAbout(LongNames))

NextLong ==
    \/ CallAddLong
    \/ CallRemoveLong
    \/ DeliverLong
    \/ FilterCallback
    \/ FilterReturn

\* the program used with names whose match rules have the same text
SpecLong == Init /\ [][NextLong]_vars

----------------------------------------------------------------------------
(* Properties *)

\* no name_exit_filter invocation is in progress
IdleNow == dispatch.pc = "idle"

\* the match rules on the bus that the calls installed for a name
Installed(name) == matches[RuleId[name]]

\* how many registrations of (func, user_data) a callback list holds
Count(callbacks, func, user_data) ==
    Cardinality({i \in 1 .. Len(callbacks) :
                    callbacks[i] = name_callback(func, user_data)})

\* C1: in every reachable state at most one match rule is installed on the
\* bus for any one name, however many callers registered and whatever calls
\* and notifications came before.
C1_AtMostOneRulePerName == \A n \in Names : Installed(n) <= 1

\* C2: whenever no operation is in progress, every name that has at least one
\* registered callback has a match rule installed on the bus.
C2_RegisteredNameHasRule ==
    IdleNow =>
        \A n \in Names :
            Registered(name_listeners, n) # <<>> => Installed(n) >= 1

\* C3: after name_exit_filter has dispatched the loss of a name that had
\* registered callbacks, and
\* after name_listener_remove has removed the last registration of a name
\* and its match rule, no match rule for that name is left on the bus.
C3_BusStateTornDown ==
    /\ (last.op = "filter" /\ last.watched /\ last.registered > 0)
           => Installed(last.name) = 0
    /\ (last.op = "remove" /\ last.ret = 0
            /\ Answered(last.bus, "remove_match", TRUE))
           => Installed(last.name) = 0

\* the invocations, in order, of a list of callbacks for a name
Invocations(callbacks, name) ==
    [i \in 1 .. Len(callbacks) |-> Invocation(callbacks[i], name)]

\* C4: while name_exit_filter dispatches the loss of a name and no callback
\* calls the registry, the callbacks invoked so far are those registered
\* before the loop's position, each once, in registration order, with the
\* name and their own user_data; when the loop has ended these are all the
\* callbacks of the name; and once the filter has returned the name has no
\* registrations, so the same notification again finds no name_data and
\* invokes nothing.
C4_LossInvokesEachOnceInOrder ==
    /\ (dispatch.pc = "loop" /\ dispatch.reentered = 0) =>
           /\ name_listeners[dispatch.data].callbacks = dispatch.snap
           /\ dispatch.invoked =
                  Invocations(
                      SubSeq(dispatch.snap, 1,
                             IF dispatch.l = 0 THEN Len(dispatch.snap)
                             ELSE dispatch.l - 1),
                      dispatch.message.name)
    /\ (last.op = "filter" /\ last.watched) =>
           /\ Registered(name_listeners, last.name) = <<>>
           /\ name_exit_filter_data(name_listeners, last.message) = 0

\* C4 witness: the loop has ended after invoking two callbacks, none of which
\* called the registry
C4_Witness ==
    /\ dispatch.pc = "loop" /\ dispatch.l = 0 /\ dispatch.reentered = 0
    /\ Len(dispatch.invoked) = 2
    /\ dispatch.invoked[1] # dispatch.invoked[2]

\* C5: when all calls so far were name_listener_add calls for one name that
\* succeeded, dbus_bus_add_match was called by the first of them and by no
\* later one.
C5_InstallOnFirstAddOnly ==
    (last.only_adds /\ last.adds # <<>>) =>
        /\ last.adds[1]
        /\ \A i \in 2 .. Len(last.adds) : ~last.adds[i]

\* C5 witness: two successful adds of one name and nothing else
C5_Witness == last.only_adds /\ Len(last.adds) >= 2

\* C6: a name_listener_remove of a (func, user_data) registered for the name
\* deletes exactly one registration of it, the first; when the pair was
\* registered twice or more the call returns 0, makes no call on the bus and
\* leaves the other registrations and the match rule as they were.
C6_RemoveDeletesOneOfTwo ==
    [][(last'.op = "remove"
            /\ Count(Registered(name_listeners, last'.name), last'.func,
                     last'.user_data) >= 1)
       => LET before == Registered(name_listeners, last'.name)
              after == Registered(name_listeners', last'.name)
              n == Count(before, last'.func, last'.user_data)
              first == CHOOSE i \in 1 .. Len(before) :
                           /\ before[i] = name_callback(last'.func,
                                                        last'.user_data)
                           /\ \A j \in 1 .. (i - 1) : before[j] # before[i]
          IN  /\ Count(after, last'.func, last'.user_data) = n - 1
              /\ after = slist_remove(before, first)
              /\ n >= 2 =>
                     /\ last'.ret = 0
                     /\ last'.bus = <<>>
                     /\ matches' = matches]_vars

\* C6 witness: a remove has returned 0 without a call on the bus and one
\* registration of the same (func, user_data) is still there
C6_Witness ==
    /\ last.op = "remove" /\ last.ret = 0 /\ last.bus = <<>>
    /\ Count(Registered(name_listeners, last.name), last.func,
             last.user_data) = 1
    /\ Installed(last.name) = 1

\* C7: when a name had no registration, a successful name_listener_add
\* followed at once by name_listener_remove with the same arguments (the bus
\* answering no error) returns 0, leaves no registration for the name, makes
\* exactly one dbus_bus_remove_match call, and leaves the name's entry and
\* its match rules as they were before the add.
C7_AddThenRemoveRestores ==
    (last.op = "remove" /\ last.after_add /\ last.add_regs = 0
        /\ ~Answered(last.bus, "remove_match", FALSE))
    => /\ last.ret = 0
       /\ Registered(name_listeners, last.name) = <<>>
       /\ Len(last.bus) = 1 /\ last.bus[1].call = "remove_match"
       /\ (name_data_find(name_listeners, last.name) # 0) = last.add_entry
       /\ Installed(last.name) = last.add_rules

\* C8: a name_listener_add whose dbus_bus_add_match fails returns -1 and
\* leaves the name_data list, every callback list and the match rules as they
\* were before the call; the name has no name_data afterwards.
C8_FailedInstallRollsBack ==
    [][(last'.op = "add" /\ Answered(last'.bus, "add_match", FALSE))
       => /\ last'.ret = -1
          /\ name_listeners' = name_listeners
          /\ matches' = matches
          /\ name_data_find(name_listeners', last'.name) = 0]_vars

\* C8 witness: an add has failed on dbus_bus_add_match while another name is
\* watched
C8_Witness ==
    /\ last.op = "add" /\ Answered(last.bus, "add_match", FALSE)
    /\ name_listeners # <<>>

\* C9: a name_listener_remove whose dbus_bus_remove_match fails returns -1
\* and leaves the name with the registrations it had before the call.
C9_FailedUninstallKeepsRegistration ==
    [][(last'.op = "remove" /\ Answered(last'.bus, "remove_match", FALSE))
       => /\ last'.ret = -1
          /\ name_listeners' = name_listeners]_vars

\* C10: a name_listener_remove for a name that has no name_data, or for a
\* (func, user_data) not registered for the name, returns -1, makes no call
\* on the bus and changes nothing.
C10_UnknownRemoveChangesNothing ==
    [][(last'.op = "remove"
            /\ Count(Registered(name_listeners, last'.name), last'.func,
                     last'.user_data) = 0)
       => /\ last'.ret = -1
          /\ last'.bus = <<>>
          /\ UNCHANGED <<name_listener_initialized, name_listeners, filters,
                         matches, dispatch>>]_vars

\* C10 witness: a remove of a pair that is not registered has returned -1
\* for a name that has other registrations
C10_Witness ==
    /\ last.op = "remove" /\ last.ret = -1 /\ last.bus = <<>>
    /\ Registered(name_listeners, last.name) # <<>>
    /\ Count(Registered(name_listeners, last.name), last.func,
             last.user_data) = 0

\* whether a message is anything but NameOwnerChanged(name, old, "") for a
\* name that has its name_data: another message, a signal with other
\* arguments, a name that got an owner, a name nobody listens for
NotLoss(listeners, message) ==
    \/ message.kind # "NameOwnerChanged"
    \/ message.new # <<>>
    \/ \A i \in 1 .. Len(listeners) :
           NameText[listeners[i].name] # NameText[message.name]

\* C11: a message handed to name_exit_filter that is not a well-formed
\* NameOwnerChanged with an empty new owner for a name that has its name_data
\* runs no callback (the loop is not entered) and leaves the globals, the
\* name_data list with its callbacks, the filter and the match rules as they
\* were
C11_OtherMessagesChangeNothing ==
    [][(dispatch.pc = "idle" /\ (last'.op = "filter" \/ dispatch'.pc = "loop"))
       => LET message == IF dispatch'.pc = "loop" THEN dispatch'.message
                         ELSE last'.message
          IN  NotLoss(name_listeners, message)
              => /\ dispatch' = dispatch
                 /\ last'.op = "filter"
                 /\ UNCHANGED <<name_listener_initialized, name_listeners,
                                filters, matches>>]_vars

\* a name with registered callbacks got a new owner and the filter returned
\* without looking for its name_data
C11_Witness ==
    /\ last.op = "filter"
    /\ ~last.watched
    /\ last.message.kind = "NameOwnerChanged"
    /\ last.message.new # <<>>
    /\ Registered(name_listeners, last.message.name) # <<>>

\* C12: over any sequence of calls the filter is attached to the connection
\* at most once, name_listener_initialized is never cleared once it is set,
\* and dbus_bus_add_match is called, and a rule gets onto the bus, only after
\* dbus_connection_add_filter succeeded
C12_FilterOnceBeforeAnyRule ==
    [][/\ filters' <= 1
       /\ name_listener_initialized = 1 => name_listener_initialized' = 1
       /\ (\E rule \in Rules : matches'[rule] > matches[rule])
          => filters' = 1 /\ name_listener_initialized' = 1
       /\ last'.op = "add"
          => \A i \in 1 .. Len(last'.bus) :
                 last'.bus[i].call = "add_match"
                 => \/ filters = 1 /\ name_listener_initialized = 1
                    \/ \E j \in 1 .. i - 1 :
                           last'.bus[j] = BusCall("add_filter", "", TRUE)]_vars

\* a later name_listener_add installed a rule and did not attach the filter
\* again
C12_Witness ==
    /\ last.op = "add"
    /\ last.bus = <<BusCall("add_match", RuleId[last.name], TRUE)>>
    /\ filters = 1
    /\ name_listener_initialized = 1
    /\ Sum(matches, Rules) = 2

\* C13: a callback that name_listener_add recorded with value 0 for the name
\* whose loss name_exit_filter is dispatching (dispatch.readded) is, once the
\* filter has returned, registered for that name, and the rule of the name is
\* on the bus
C13_ReaddDuringDispatchStays ==
    [][(dispatch.pc = "loop" /\ dispatch'.pc = "idle")
       => \A caller \in dispatch.readded :
              /\ Count(Registered(name_listeners', dispatch.message.name),
                       caller[1], caller[2]) >= 1
              /\ matches'[RuleId[dispatch.message.name]] >= 1]_vars

\* how many times a value occurs in a sequence
Occurrences(seq, x) == Cardinality({i \in 1 .. Len(seq) : seq[i] = x})

\* C14: while name_exit_filter dispatches the loss of a name, whatever the
\* callbacks do with the registry, the invocations made so far are of
\* callbacks that were registered for the name when the filter was entered
\* (dispatch.snap), each of those at most once
C14_DispatchInvokesSnapshotOnce ==
    dispatch.pc = "loop"
    => \A i \in 1 .. Len(dispatch.invoked) :
           Occurrences(dispatch.invoked, dispatch.invoked[i])
           <= Occurrences(Invocations(dispatch.snap, dispatch.message.name),
                          dispatch.invoked[i])

\* C15: name_listener_add has value 0 only when it recorded the callback:
\* a call in which malloc or strdup fails does not have value 0
C15_AddZeroMeansRecorded ==
    (last.op = "add" /\ last.ret = 0) => last.recorded

\* C16: name_exit_filter returns DBUS_HANDLER_RESULT_NOT_YET_HANDLED on every
\* path: for a message it ignores and after it ran the callbacks of a name
C16_FilterNeverConsumes ==
    last.op = "filter" => last.handled = NOT_YET_HANDLED

\* the filter ran the callbacks of a name and returned
C16_Witness ==
    /\ last.op = "filter"
    /\ last.watched
    /\ last.registered > 0
    /\ last.handled = "DBUS_HANDLER_RESULT_NOT_YET_HANDLED"

\* whether name_listeners holds a name_data for the name
HasEntry(listeners, name) ==
    \E i \in 1 .. Len(listeners) : NameText[listeners[i].name] = NameText[name]

\* C17: when no filter invocation is in progress, name_listeners holds a
\* name_data for a name exactly when at least one callback is registered for
\* that name
C17_EntryIffRegistered ==
    IdleNow
    => \A name \in Names :
           HasEntry(name_listeners, name)
           <=> \E i \in 1 .. Len(name_listeners) :
                   /\ NameText[name_listeners[i].name] = NameText[name]
                   /\ name_listeners[i].callbacks # <<>>

\* C18: name_listeners never holds two name_data for the same name
C18_OneEntryPerName ==
    \A i, j \in 1 .. Len(name_listeners) :
        NameText[name_listeners[i].name] = NameText[name_listeners[j].name]
        => i = j

\* a second callback was added for a name that had its name_data, and the
\* name still has one name_data, holding both
C18_Witness ==
    /\ last.op = "add"
    /\ last.recorded
    /\ last.add_entry
    /\ Len(name_listeners) = 1
    /\ Len(name_listeners[1].callbacks) = 2

\* C19: name_listener_remove calls dbus_bus_remove_match only for a name
\* whose rule is on the bus when the call is made
C19_RemoveMatchOnlyIfInstalled ==
    [][(last'.op = "remove" /\ Called(last'.bus, "remove_match"))
       => matches[RuleId[last'.name]] >= 1]_vars

\* the name_data of a name, with their callbacks, in list order
EntriesOf(listeners, name) ==
    SelectSeq(listeners, LAMBDA data : NameText[data.name] = NameText[name])

\* the names a step works on: the name given to name_listener_add or
\* name_listener_remove, the name in the NameOwnerChanged signal the filter
\* is handed or is dispatching
Touched ==
    IF last'.op \in {"add", "remove"} THEN {last'.name}
    ELSE IF dispatch.pc = "loop" THEN {dispatch.message.name}
    ELSE IF dispatch'.pc = "loop" THEN {dispatch'.message.name}
    ELSE IF last'.op = "filter" /\ last'.message.kind = "NameOwnerChanged"
    THEN {last'.message.name}
    ELSE {}

\* C20: a step that works on one name leaves every name with another text as
\* it was: its name_data with the registered callbacks stay, and when it has
\* a callback registered and a rule on the bus it still has a rule on the
\* bus after the step; and a callback the step invokes is invoked with the
\* name worked on and is registered for that name
C20_OtherNamesUntouched ==
    [][/\ \A other \in AllNames :
              (\A name \in Touched : NameText[name] # NameText[other])
              => /\ EntriesOf(name_listeners', other)
                        = EntriesOf(name_listeners, other)
                 /\ (/\ \E i \in 1 .. Len(name_listeners) :
                            /\ NameText[name_listeners[i].name]
                                   = NameText[other]
                            /\ name_listeners[i].callbacks # <<>>
                     /\ matches[RuleId[other]] >= 1)
                    => matches'[RuleId[other]] >= 1
       /\ (dispatch'.pc = "loop"
           /\ Len(dispatch'.invoked) > Len(dispatch.invoked))
          => LET call == dispatch'.invoked[Len(dispatch'.invoked)]
             IN  /\ call.name \in Touched
                 /\ \E i \in 1 .. Len(name_listeners) :
                        /\ NameText[name_listeners[i].name]
                               = NameText[call.name]
                        /\ Count(name_listeners[i].callbacks, call.func,
                                 call.user_data) >= 1]_vars

====
